---- MODULE Spec2Model ----
(***************************************************************************)
(* WeatherVerify (src/app.py): one submitted form is one pipeline run      *)
(*   validate -> geocode_city -> get_historical_weather -> report          *)
(* The run is modelled step by step; the two Open-Meteo services are the   *)
(* environment and answer each request with any response of a bounded set. *)
(*                                                                         *)
(* Numbers are fixed point: a JSON number is an integer count of           *)
(* thousandths (5.0 mm is 5000).  A JSON value is a record [t, v] whose    *)
(* tag t is "num", "nan", "null" (JSON null, Python None) or "missing"     *)
(* (key absent).  Strings are sequences of one-character strings.          *)
(***************************************************************************)
EXTENDS Integers, Sequences, FiniteSets, TLC

\* ---------------------------------------------------------------- bounds
MaxNameLen == 2
MaxDay == 2
MaxClock == 2

\* ------------------------------------------------------- program constants
RainThreshold == 5000

\* ------------------------------------------------------------ JSON values
Num(n) == [t |-> "num", v |-> n]
Null == [t |-> "null", v |-> 0]
NaN == [t |-> "nan", v |-> 0]
Missing == [t |-> "missing", v |-> 0]
Str(s) == [t |-> "str", v |-> s]
MissingStr == [t |-> "missing", v |-> <<>>]

\* Python None as a function result
None == [t |-> "null", v |-> 0]

IsNone(x) == x.t = "null"

\* ------------------------------------------------------- str.strip()
Blank == " "

RECURSIVE LStrip(_)
LStrip(s) ==
    IF s = <<>> THEN <<>>
    ELSE IF Head(s) = Blank THEN LStrip(Tail(s)) ELSE s

RECURSIVE RStrip(_)
RStrip(s) ==
    IF s = <<>> THEN <<>>
    ELSE IF s[Len(s)] = Blank THEN RStrip(SubSeq(s, 1, Len(s) - 1)) ELSE s

\* s.lstrip() in place of s.strip()
StripLeading(s) == LStrip(s)

Strip(s) == RStrip(LStrip(s))

\* ", ".join(parts)
RECURSIVE Join(_)
Join(parts) ==
    IF parts = <<>> THEN <<>>
    ELSE IF Len(parts) = 1 THEN parts[1]
    ELSE parts[1] \o <<",", " ">> \o Join(Tail(parts))

\* ------------------------------------------------------- st.error texts
ErrEnterCity == "Please enter a city name."
ErrDatePast == "The incident date must be in the past."
ErrNotFound == "Could not find location"
ErrNoWeather == "Could not retrieve weather data"
ErrGeoConnect == "Error connecting to geocoding service"
ErrGeoUnexpected == "Unexpected error during geocoding"
ErrWxConnect == "Error connecting to weather service"
ErrWxUnexpected == "Unexpected error retrieving weather data"
ErrPdf == "Error generating PDF"

\* =================================================================
\* Responses of the geocoding service (the environment)
\* =================================================================
\* kind: "transport"  requests.get raises (connection error, timeout)
\*       "http_error" raise_for_status raises (non-2xx)
\*       "bad_json"   response.json() raises (requests' JSONDecodeError
\*                    is a RequestException, so the first handler takes it)
\*       "json"       a decoded body; hasResults says whether it has the
\*                    key "results", results is that list
LatValues == {0, 51000, 91000}
LonValues == {0}
PlaceName == <<"L">>
RegionName == <<"E">>
CountryName == <<"U">>

Candidates ==
    [latitude : {Missing, Null} \cup {Num(n) : n \in LatValues},
     longitude : {Num(n) : n \in LonValues},
     name : {Str(PlaceName)},
     admin1 : {MissingStr, Str(RegionName)},
     country : {MissingStr, Str(CountryName)}]

NoCandidate == <<>>

GeoResponses ==
    [kind : {"transport", "http_error", "bad_json"},
     hasResults : {FALSE}, results : {NoCandidate}]
    \cup [kind : {"json"}, hasResults : {FALSE}, results : {NoCandidate}]
    \cup [kind : {"json"}, hasResults : {TRUE}, results : {NoCandidate}]
    \cup [kind : {"json"}, hasResults : {TRUE},
          results : {<<c>> : c \in Candidates}]

NoGeoResponse == [kind |-> "none", hasResults |-> FALSE, results |-> NoCandidate]

\* The result of geocode_city: its return tuple, the st.error calls it made
\* on the way and the number of requests.get calls it made (one, line 571).
GeoReturn(lat, lon, full, errs) ==
    [latitude |-> lat, longitude |-> lon, full_location |-> full,
     errors |-> errs, requests |-> 1]

\* location_parts with the country appended before the region
LocationPartsCountryFirst(result) ==
    <<result.name.v>>
    \o (IF result.country.t # "missing" THEN <<result.country.v>> ELSE <<>>)
    \o (IF result.admin1.t # "missing" THEN <<result.admin1.v>> ELSE <<>>)

\* location_parts of geocode_city
LocationParts(result) ==
    <<result.name.v>>
    \o (IF result.admin1.t # "missing" THEN <<result.admin1.v>> ELSE <<>>)
    \o (IF result.country.t # "missing" THEN <<result.country.v>> ELSE <<>>)

\* geocode_city without the "len(...) == 0" half of the results check: the
\* subscript [0] of an empty list raises IndexError
geocode_city_NoEmptyCheck(resp) ==
    IF resp.kind \in {"transport", "http_error", "bad_json"}
    THEN GeoReturn(None, None, <<>>, <<ErrGeoConnect>>)
    ELSE IF ~resp.hasResults
    THEN GeoReturn(None, None, <<>>, <<>>)
    ELSE IF Len(resp.results) = 0
    THEN GeoReturn(None, None, <<>>, <<ErrGeoUnexpected>>)
    ELSE LET result == resp.results[1] IN
         IF \/ result.latitude.t = "missing"
            \/ result.longitude.t = "missing"
            \/ result.name.t = "missing"
         THEN GeoReturn(None, None, <<>>, <<ErrGeoUnexpected>>)
         ELSE GeoReturn(result.latitude, result.longitude,
                        Join(LocationParts(result)), <<>>)

\* geocode_city repeating the request once after a transport failure
geocode_city_Retry(resp) ==
    IF resp.kind = "transport"
    THEN [GeoReturn(None, None, <<>>, <<ErrGeoConnect>>) EXCEPT !.requests = 2]
    ELSE IF resp.kind \in {"http_error", "bad_json"}
    THEN GeoReturn(None, None, <<>>, <<ErrGeoConnect>>)
    ELSE IF ~resp.hasResults \/ Len(resp.results) = 0
    THEN GeoReturn(None, None, <<>>, <<>>)
    ELSE LET result == resp.results[1] IN
         IF \/ result.latitude.t = "missing"
            \/ result.longitude.t = "missing"
            \/ result.name.t = "missing"
         THEN GeoReturn(None, None, <<>>, <<ErrGeoUnexpected>>)
         ELSE GeoReturn(result.latitude, result.longitude,
                        Join(LocationParts(result)), <<>>)

\* geocode_city(city_name) against the response resp
geocode_city(resp) ==
    IF resp.kind \in {"transport", "http_error", "bad_json"}
    THEN GeoReturn(None, None, <<>>, <<ErrGeoConnect>>)
    ELSE IF ~resp.hasResults \/ Len(resp.results) = 0
    THEN GeoReturn(None, None, <<>>, <<>>)
    ELSE LET result == resp.results[1] IN
         IF \/ result.latitude.t = "missing"
            \/ result.longitude.t = "missing"
            \/ result.name.t = "missing"
         THEN GeoReturn(None, None, <<>>, <<ErrGeoUnexpected>>)
         ELSE GeoReturn(result.latitude, result.longitude,
                        Join(LocationParts(result)), <<>>)

\* =================================================================
\* Responses of the weather archive (the environment)
\* =================================================================
\* A series of the "daily" object: Absent (no such key), Empty ([]), or
\* One(x), a one-element list holding x.
Absent == [s |-> "absent", x |-> Missing]
Empty == [s |-> "empty", x |-> Missing]
One(x) == [s |-> "one", x |-> x]

PrecipValues == {0 - 1000, 0, 5000, 5001, 12400}
OtherValue == 1500
LongRainHours == 6250

PrecipSeries == {Absent, Empty, One(Null), One(NaN)}
                    \cup {One(Num(p)) : p \in PrecipValues}
HoursSeries == {One(Null), One(Num(OtherValue)), One(Num(LongRainHours))}
WindSeries == {One(Null), One(Num(OtherValue))}
TMaxSeries == {Absent, One(Null), One(Num(OtherValue))}
TMinSeries == {One(Num(OtherValue))}
TimeSeries == {Absent, One(Num(0))}

\* the "timezone" label of the body
TzLabel == <<"Z">>
TzUTC == <<"U", "T", "C">>
TzFields == {MissingStr, Str(TzLabel)}

DailyObjects ==
    [precipitation_sum : PrecipSeries,
     precipitation_hours : HoursSeries,
     windspeed_10m_max : WindSeries,
     temperature_2m_max : TMaxSeries,
     temperature_2m_min : TMinSeries,
     time : TimeSeries]

NoDaily ==
    [precipitation_sum |-> Absent, precipitation_hours |-> Absent,
     windspeed_10m_max |-> Absent, temperature_2m_max |-> Absent,
     temperature_2m_min |-> Absent, time |-> Absent]

WxResponses ==
    [kind : {"transport", "http_error", "bad_json"},
     hasDaily : {FALSE}, daily : {NoDaily}, timezone : {MissingStr}]
    \cup [kind : {"json"}, hasDaily : {FALSE}, daily : {NoDaily},
          timezone : TzFields]
    \cup [kind : {"json"}, hasDaily : {TRUE}, daily : DailyObjects,
          timezone : TzFields]

NoWxResponse ==
    [kind |-> "none", hasDaily |-> FALSE, daily |-> NoDaily,
     timezone |-> MissingStr]

\* series[0] raises KeyError for an absent key, IndexError for []
Subscriptable(series) == series.s = "one"

NoData ==
    [isNone |-> TRUE,
     precipitation_sum |-> Null, precipitation_hours |-> Null,
     windspeed_max |-> Null, temperature_max |-> Null,
     temperature_min |-> Null, date |-> Null, timezone |-> <<>>]

WxReturn(data, errs) == [data |-> data, errors |-> errs, requests |-> 1]

\* the extraction with windspeed_max read from the precipitation_hours series
WxExtractSwapped(resp) ==
    LET daily == resp.daily IN
    IF /\ Subscriptable(daily.precipitation_sum)
       /\ Subscriptable(daily.precipitation_hours)
       /\ Subscriptable(daily.windspeed_10m_max)
       /\ Subscriptable(daily.temperature_2m_max)
       /\ Subscriptable(daily.temperature_2m_min)
       /\ Subscriptable(daily.time)
    THEN WxReturn(
           [isNone |-> FALSE,
            precipitation_sum |-> daily.precipitation_sum.x,
            precipitation_hours |-> daily.precipitation_hours.x,
            windspeed_max |-> daily.precipitation_hours.x,
            temperature_max |-> daily.temperature_2m_max.x,
            temperature_min |-> daily.temperature_2m_min.x,
            date |-> daily.time.x,
            timezone |-> IF resp.timezone.t = "missing"
                         THEN TzUTC ELSE resp.timezone.v],
           <<>>)
    ELSE WxReturn(NoData, <<ErrWxUnexpected>>)

\* daily = data["daily"], index 0 of each series, the timezone label; any
\* KeyError or IndexError is caught by "except Exception"
WxExtract(resp) ==
    LET daily == resp.daily IN
    IF /\ Subscriptable(daily.precipitation_sum)
       /\ Subscriptable(daily.precipitation_hours)
       /\ Subscriptable(daily.windspeed_10m_max)
       /\ Subscriptable(daily.temperature_2m_max)
       /\ Subscriptable(daily.temperature_2m_min)
       /\ Subscriptable(daily.time)
    THEN WxReturn(
           [isNone |-> FALSE,
            precipitation_sum |-> daily.precipitation_sum.x,
            precipitation_hours |-> daily.precipitation_hours.x,
            windspeed_max |-> daily.windspeed_10m_max.x,
            temperature_max |-> daily.temperature_2m_max.x,
            temperature_min |-> daily.temperature_2m_min.x,
            date |-> daily.time.x,
            timezone |-> IF resp.timezone.t = "missing"
                         THEN TzUTC ELSE resp.timezone.v],
           <<>>)
    ELSE WxReturn(NoData, <<ErrWxUnexpected>>)

\* get_historical_weather without the '"daily" not in data' check:
\* data["daily"] raises KeyError
get_historical_weather_NoDailyCheck(resp) ==
    IF resp.kind \in {"transport", "http_error", "bad_json"}
    THEN WxReturn(NoData, <<ErrWxConnect>>)
    ELSE IF ~resp.hasDaily
    THEN WxReturn(NoData, <<ErrWxUnexpected>>)
    ELSE WxExtract(resp)

\* get_historical_weather answering a response without "daily" with a
\* record of zeros in place of None
get_historical_weather_ZeroOnNoDaily(resp) ==
    IF resp.kind \in {"transport", "http_error", "bad_json"}
    THEN WxReturn(NoData, <<ErrWxConnect>>)
    ELSE IF ~resp.hasDaily
    THEN WxReturn([isNone |-> FALSE,
                   precipitation_sum |-> Num(0), precipitation_hours |-> Num(0),
                   windspeed_max |-> Num(0), temperature_max |-> Num(0),
                   temperature_min |-> Num(0), date |-> Num(0),
                   timezone |-> TzUTC], <<>>)
    ELSE WxExtract(resp)

\* get_historical_weather(latitude, longitude, incident_date) against resp
get_historical_weather(resp) ==
    IF resp.kind \in {"transport", "http_error", "bad_json"}
    THEN WxReturn(NoData, <<ErrWxConnect>>)
    ELSE IF ~resp.hasDaily
    THEN WxReturn(NoData, <<>>)
    ELSE WxExtract(resp)

\* =================================================================
\* Formatting and classification
\* =================================================================
\* f"{x:.2f}" / f"{x:.1f}" raise TypeError on None; a float (NaN too)
\* formats.
CanFormat(x) == x.t \in {"num", "nan"}

\* x > 5.0 raises TypeError on None
CanCompare(x) == x.t \in {"num", "nan"}

Digit(d) == <<"0", "1", "2", "3", "4", "5", "6", "7", "8", "9">>[d + 1]

\* the decimal digits of a natural number
RECURSIVE Digits(_)
Digits(k) ==
    IF k < 10 THEN <<Digit(k)>>
    ELSE Append(Digits(k \div 10), Digit(k % 10))

\* the last w decimal digits of k, zero-filled
RECURSIVE Padded(_, _)
Padded(k, w) ==
    IF w = 0 THEN <<>> ELSE Append(Padded(k \div 10, w - 1), Digit(k % 10))

RECURSIVE Pow10(_)
Pow10(k) == IF k = 0 THEN 1 ELSE 10 * Pow10(k - 1)

\* a thousandths (a >= 0) rounded to units of 10^-places, as the "f"
\* presentation rounds a float: to the nearest unit, and a tie that the
\* float holds exactly (a multiple of 1/8) to the even unit. A tie that is
\* no binary fraction rounds by the nearest double, which this model does
\* not hold: no such value is among the inputs.
Rounded(a, places) ==
    IF places >= 3 THEN a * Pow10(places - 3)
    ELSE LET scale == Pow10(3 - places)
             q == a \div scale
             r == a % scale
         IN CASE 2 * r < scale -> q
              [] 2 * r > scale -> q + 1
              [] 2 * r = scale /\ a % 125 = 0 -> q + (q % 2)

NanText == <<"n", "a", "n">>

\* f"{x:.<places>f}" for a float x: sign, integer digits, ".", exactly
\* `places` digits; "nan" for NaN
FormatFixed(x, places) ==
    IF x.t = "nan" THEN NanText
    ELSE LET a == IF x.v < 0 THEN 0 - x.v ELSE x.v
             u == Rounded(a, places)
             p == Pow10(places)
         IN (IF x.v < 0 THEN <<"-">> ELSE <<>>)
            \o Digits(u \div p) \o <<".">> \o Padded(u % p, places)

\* ---- dates: a day number d of the model is the date whose proleptic
\* Gregorian ordinal is DayZero + d (day 0 is 2024-02-28)
DayZero == 738944

DaysInMonth == <<31, 28, 31, 30, 31, 30, 31, 31, 30, 31, 30, 31>>

DaysBeforeMonth == <<0, 31, 59, 90, 120, 151, 181, 212, 243, 273, 304, 334>>

\* date.fromordinal: year, month and day of an ordinal
Ord2Ymd(ordinal) ==
    LET n0 == ordinal - 1
        n400 == n0 \div 146097
        r400 == n0 % 146097
        n100 == r400 \div 36524
        r100 == r400 % 36524
        n4 == r100 \div 1461
        r4 == r100 % 1461
        n1 == r4 \div 365
        n == r4 % 365
        year == n400 * 400 + 1 + n100 * 100 + n4 * 4 + n1
    IN IF n1 = 4 \/ n100 = 4
       THEN [year |-> year - 1, month |-> 12, day |-> 31]
       ELSE LET leap == n1 = 3 /\ (n4 # 24 \/ n100 = 3)
                guess == (n + 50) \div 32
                before == DaysBeforeMonth[guess]
                          + (IF guess > 2 /\ leap THEN 1 ELSE 0)
                month == IF before > n THEN guess - 1 ELSE guess
                preceding ==
                    IF before > n
                    THEN before - (DaysInMonth[month]
                                   + (IF month = 2 /\ leap THEN 1 ELSE 0))
                    ELSE before
            IN [year |-> year, month |-> month, day |-> n - preceding + 1]

MonthNames ==
    <<"January", "February", "March", "April", "May", "June", "July",
      "August", "September", "October", "November", "December">>

\* date.weekday(): Monday is 0
WeekdayNames ==
    <<"Monday", "Tuesday", "Wednesday", "Thursday", "Friday", "Saturday",
      "Sunday">>

NoPhrase == [month |-> "", day |-> <<>>, year |-> <<>>, weekday |-> ""]

\* incident_date.strftime('%B %d, %Y (%A)'): full month name, day of the
\* month as two digits, year as four digits, full weekday name
DatePhrase(d) ==
    LET ordinal == DayZero + d
        ymd == Ord2Ymd(ordinal)
    IN [month |-> MonthNames[ymd.month],
        day |-> Padded(ymd.day, 2),
        year |-> Padded(ymd.year, 4),
        weekday |-> WeekdayNames[((ordinal + 6) % 7) + 1]]

\* incident_date.strftime("%Y-%m-%d")
IsoDate(d) ==
    LET ymd == Ord2Ymd(DayZero + d) IN
    Padded(ymd.year, 4) \o <<"-">> \o Padded(ymd.month, 2) \o <<"-">>
    \o Padded(ymd.day, 2)

\* the request with the day after as end_date
WxParamsTwoDays(lat, lon, day) ==
    [latitude |-> lat, longitude |-> lon,
     start_date |-> IsoDate(day), end_date |-> IsoDate(day + 1)]

\* get_historical_weather: params of the archive request (the list of
\* daily metrics and timezone=auto are the same in every request)
WxParams(lat, lon, day) ==
    [latitude |-> lat, longitude |-> lon,
     start_date |-> IsoDate(day), end_date |-> IsoDate(day)]

SIGNIFICANT == "SIGNIFICANT RAIN DETECTED"
MINOR == "MINOR/NO RAIN"
NoVerdict == "none"

\* main, free view: "if precipitation > 5.0" (a comparison with NaN is
\* False)
ScreenVerdictAtLeast(precipitation) ==
    IF precipitation.t = "num" /\ precipitation.v >= RainThreshold
    THEN SIGNIFICANT ELSE MINOR

ScreenVerdict(precipitation) ==
    IF precipitation.t = "num" /\ precipitation.v > RainThreshold
    THEN SIGNIFICANT ELSE MINOR

\* the verdict section with "if precipitation >= 5.0"
PdfVerdictAtLeast(precipitation) ==
    IF precipitation.t = "num" /\ precipitation.v >= RainThreshold
    THEN SIGNIFICANT ELSE MINOR

\* generate_pdf_report, verdict section: "if precipitation > 5.0"
PdfVerdict(precipitation) ==
    IF precipitation.t = "num" /\ precipitation.v > RainThreshold
    THEN SIGNIFICANT ELSE MINOR

\* main, free view: f'{precipitation:.2f}mm of rainfall recorded'
ScreenVerdictAmount(precipitation) == FormatFixed(precipitation, 2)

\* verdict_text with {precipitation:.1f}
PdfVerdictAmountOneDecimal(precipitation) == FormatFixed(precipitation, 1)

\* generate_pdf_report, verdict_text:
\* f"... experienced {precipitation:.2f}mm of rainfall, ..."
PdfVerdictAmount(precipitation) == FormatFixed(precipitation, 2)

\* ---- the payment flag
NoPayment == "(absent)"
PaymentConfirmed == "success_confirmed"
PaymentOther == "success"

\* any value of the parameter taken as a confirmed payment
IsPaidAnyValue(param) == param # NoPayment

\* main: is_paid = st.query_params.get("payment") == "success_confirmed"
IsPaid(param) == param = PaymentConfirmed

\* "if is_paid:" selects the paid view, which returns before the free one
ViewOf(param) == IF IsPaid(param) THEN "paid" ELSE "free"

\* =================================================================
\* State
\* =================================================================
VARIABLES
    view,           \* "paid" iff query parameter payment = success_confirmed
    city_name,      \* the text input
    incident_date,  \* the date input (a day number)
    today,          \* date.today() (a day number)
    pc,             \* position of the run in main
    steps,          \* the positions the run has executed, in order
    errors,         \* st.error messages shown, in order
    notices,        \* st.success messages shown, in order
    geoResp,        \* the geocoding service's response
    wxResp,         \* the archive's response
    geoCalls,       \* requests made to the geocoding service
    wxCalls,        \* requests made to the archive
    geoArg,         \* the name sent to the geocoding service
    wxArg,          \* latitude, longitude, start and end date sent
    latitude, longitude, location_full,
    weather_data,
    shown,          \* report items rendered on the page, in order
    verdict,        \* the verdict rendered on the page
    pdfElements,    \* generate_pdf_report's elements list
    pdfVerdict,     \* the verdict section of the PDF
    download,       \* st.download_button offered
    exc,            \* the exception that ended the script, or "none"
    verdictAmount,  \* the rainfall amount written in the page's verdict
    pdfVerdictAmount, \* the rainfall amount written in verdict_text
    pdfTables,      \* the location and weather tables of the PDF
    reportDate,     \* the "Report Generated" minute of the PDF
    now,            \* the last reading of the clock
    cancelRequested, \* the user has asked to stop the run
    payment,        \* the query parameter "payment" of the page's URL
    prev,           \* what an earlier run of the script in this session gave
    other,          \* the variables of another session's script thread
    switches,       \* how often the threads have taken turns
    interleaved     \* a turn was taken with both scripts under way

vars == <<view, city_name, incident_date, today, pc, steps, errors, notices,
          geoResp, wxResp, geoCalls, wxCalls, geoArg, wxArg,
          latitude, longitude, location_full, weather_data,
          shown, verdict, pdfElements, pdfVerdict, download, exc,
          verdictAmount, pdfVerdictAmount, pdfTables, reportDate, now,
          cancelRequested, payment, prev, other, switches, interleaved>>

inputVars == <<view, city_name, incident_date, today, cancelRequested,
               payment, prev, other, switches, interleaved>>
geoVars == <<geoResp, geoCalls, geoArg, latitude, longitude, location_full>>
wxVars == <<wxResp, wxCalls, wxArg, weather_data>>
screenVars == <<shown, verdict, verdictAmount>>
pdfVars == <<pdfElements, pdfVerdict, download, pdfVerdictAmount, pdfTables,
             reportDate>>

Chars == {Blank, "x"}

RECURSIVE StringsUpTo(_)
StringsUpTo(n) ==
    IF n = 0 THEN {<<>>}
    ELSE LET shorter == StringsUpTo(n - 1) IN
         shorter \cup {Append(s, c) : s \in shorter, c \in Chars}

CityNames == StringsUpTo(MaxNameLen)

NoArg == [latitude |-> Null, longitude |-> Null, start_date |-> <<>>,
          end_date |-> <<>>]

\* the clock ticks twice a minute; '%B %d, %Y at %H:%M' keeps the minute
TicksPerMinute == 2

NoDate == 0 - 1

NoTables == [location |-> <<>>, coordinates |-> <<>>, timezone |-> <<>>,
             incident |-> NoPhrase,
             weather |-> <<>>]

NoContents ==
    [elements |-> <<>>, generated |-> NoDate, tables |-> NoTables,
     verdict |-> NoVerdict, amount |-> <<>>]

NoArgs ==
    [city_name |-> <<>>, incident_date |-> NoDate, location_full |-> <<>>,
     latitude |-> None, longitude |-> None, weather_data |-> NoData]

NoCore == [steps |-> <<>>, errors |-> <<>>, pc |-> "validate"]

NoPrev ==
    [kind |-> "none", precipitation |-> None,
     hours |-> None, verdict |-> NoVerdict, core |-> NoCore,
     geoResp |-> NoGeoResponse, wxResp |-> NoWxResponse,
     args |-> NoArgs, contents |-> NoContents]

\* no other session
NoOther == [pc |-> "none"]

\* the script before its first statement: nothing rendered, nothing fetched
RunStart ==
    /\ pc = "validate"
    /\ steps = <<>>
    /\ errors = <<>>
    /\ notices = <<>>
    /\ geoResp = NoGeoResponse
    /\ wxResp = NoWxResponse
    /\ geoCalls = 0
    /\ wxCalls = 0
    /\ geoArg = <<>>
    /\ wxArg = NoArg
    /\ latitude = None
    /\ longitude = None
    /\ location_full = <<>>
    /\ weather_data = NoData
    /\ shown = <<>>
    /\ verdict = NoVerdict
    /\ pdfElements = <<>>
    /\ pdfVerdict = NoVerdict
    /\ download = FALSE
    /\ exc = "none"
    /\ verdictAmount = <<>>
    /\ pdfVerdictAmount = <<>>
    /\ pdfTables = NoTables
    /\ reportDate = NoDate

Init ==
    /\ payment \in {NoPayment, PaymentConfirmed}
    /\ view = ViewOf(payment)
    /\ city_name \in CityNames
    /\ today \in 1..MaxDay
    /\ incident_date \in 0..(MaxDay + 1)
    /\ now = 0
    /\ cancelRequested = FALSE
    /\ prev = NoPrev
    /\ other = NoOther
    /\ switches = 0
    /\ interleaved = FALSE
    /\ RunStart

NoticeLocation == "Location found"
NoticeWeather == "Weather data retrieved successfully!"
NoticePdf == "PDF report ready for download!"

\* =================================================================
\* Free view (main, "Process form submission")
\* =================================================================
\* "if not city_name" alone
FreeCityMissingNoStrip(name) == name = <<>>

\* "if not city_name or city_name.strip() == """
FreeCityMissing(name) == name = <<>> \/ Strip(name) = <<>>

\* "incident_date > date.today()"
FreeDateNotPastStrict(d, t) == d > t

\* "if incident_date >= date.today()"
FreeDateNotPast(d, t) == d >= t

\* the validation with the not-found message for a missing city name
FreeValidateNotFoundMessage ==
    /\ view = "free"
    /\ pc = "validate"
    /\ steps' = Append(steps, "validate")
    /\ IF FreeCityMissing(city_name)
       THEN /\ errors' = Append(errors, ErrNotFound)
            /\ pc' = "failed"
       ELSE IF FreeDateNotPast(incident_date, today)
       THEN /\ errors' = Append(errors, ErrDatePast)
            /\ pc' = "failed"
       ELSE /\ errors' = errors
            /\ pc' = "geocode"
    /\ UNCHANGED <<inputVars, now, notices, geoVars, wxVars, screenVars, pdfVars, exc>>

FreeValidate ==
    /\ view = "free"
    /\ pc = "validate"
    /\ steps' = Append(steps, "validate")
    /\ IF FreeCityMissing(city_name)
       THEN /\ errors' = Append(errors, ErrEnterCity)
            /\ pc' = "failed"
       ELSE IF FreeDateNotPast(incident_date, today)
       THEN /\ errors' = Append(errors, ErrDatePast)
            /\ pc' = "failed"
       ELSE /\ errors' = errors
            /\ pc' = "geocode"
    /\ UNCHANGED <<inputVars, now, notices, geoVars, wxVars, screenVars, pdfVars, exc>>

\* FreeResolve without the "return" after the not-found message
FreeResolveNoReturn ==
    /\ view = "free"
    /\ pc = "geocode"
    /\ steps' = Append(steps, "geocode")
    /\ \E resp \in GeoResponses :
         LET r == geocode_city(resp) IN
         /\ geoResp' = resp
         /\ geoArg' = Strip(city_name)
         /\ geoCalls' = geoCalls + r.requests
         /\ latitude' = r.latitude
         /\ longitude' = r.longitude
         /\ location_full' = r.full_location
         /\ IF IsNone(r.latitude)
            THEN /\ errors' = errors \o r.errors \o <<ErrNotFound>>
                 /\ notices' = Append(notices, NoticeLocation)
                 /\ pc' = "weather"
            ELSE /\ errors' = errors \o r.errors
                 /\ notices' = Append(notices, NoticeLocation)
                 /\ pc' = "weather"
    /\ UNCHANGED <<inputVars, now, wxVars, screenVars, pdfVars, exc>>

FreeResolve ==
    /\ view = "free"
    /\ pc = "geocode"
    /\ steps' = Append(steps, "geocode")
    /\ \E resp \in GeoResponses :
         LET r == geocode_city(resp) IN
         /\ geoResp' = resp
         /\ geoArg' = Strip(city_name)
         /\ geoCalls' = geoCalls + r.requests
         /\ latitude' = r.latitude
         /\ longitude' = r.longitude
         /\ location_full' = r.full_location
         /\ IF IsNone(r.latitude)
            THEN /\ errors' = errors \o r.errors \o <<ErrNotFound>>
                 /\ notices' = notices
                 /\ pc' = "failed"
            ELSE /\ errors' = errors \o r.errors
                 /\ notices' = Append(notices, NoticeLocation)
                 /\ pc' = "weather"
    /\ UNCHANGED <<inputVars, now, wxVars, screenVars, pdfVars, exc>>

FreeFetch ==
    /\ view = "free"
    /\ pc = "weather"
    /\ steps' = Append(steps, "weather")
    /\ \E resp \in WxResponses :
         LET w == get_historical_weather(resp) IN
         /\ wxResp' = resp
         /\ wxArg' = WxParams(latitude, longitude, incident_date)
         /\ wxCalls' = wxCalls + w.requests
         /\ weather_data' = w.data
         /\ IF w.data.isNone
            THEN /\ errors' = errors \o w.errors \o <<ErrNoWeather>>
                 /\ notices' = notices
                 /\ pc' = "failed"
            ELSE /\ errors' = errors \o w.errors
                 /\ notices' = Append(notices, NoticeWeather)
                 /\ pc' = "metrics"
    /\ UNCHANGED <<inputVars, now, geoVars, screenVars, pdfVars, exc>>

\* the three st.metric columns; the f-strings of a column are evaluated
\* before its st.metric call
MetricColumns(data) ==
    <<[item |-> "rainfall",
       ok |-> CanFormat(data.precipitation_sum)
              /\ CanFormat(data.precipitation_hours)],
      [item |-> "temperature",
       ok |-> CanFormat(data.temperature_max)
              /\ CanFormat(data.temperature_min)],
      [item |-> "wind",
       ok |-> CanFormat(data.windspeed_max)]>>

\* the items rendered before the first column that raises
RECURSIVE Rendered(_)
Rendered(cols) ==
    IF cols = <<>> \/ ~Head(cols).ok THEN <<>>
    ELSE <<Head(cols).item>> \o Rendered(Tail(cols))

FreeShowMetrics ==
    /\ view = "free"
    /\ pc = "metrics"
    /\ steps' = Append(steps, "metrics")
    /\ LET cols == MetricColumns(weather_data)
           done == Rendered(cols)
       IN /\ shown' = shown \o done
          /\ IF Len(done) = Len(cols)
             THEN pc' = "verdict" /\ exc' = exc
             ELSE pc' = "raised" /\ exc' = "TypeError"
    /\ UNCHANGED <<inputVars, now, errors, notices, geoVars, wxVars, verdict,
                   verdictAmount, pdfVars>>

\* the verdict step with the comparison made on precipitation_hours
FreeShowVerdictByHours ==
    /\ view = "free"
    /\ pc = "verdict"
    /\ steps' = Append(steps, "verdict")
    /\ IF CanCompare(weather_data.precipitation_sum)
       THEN /\ verdict' = ScreenVerdict(weather_data.precipitation_hours)
            /\ verdictAmount' =
                   ScreenVerdictAmount(weather_data.precipitation_sum)
            /\ shown' = shown \o <<"verdict", "paywall">>
            /\ pc' = "done"
            /\ exc' = exc
       ELSE /\ verdict' = verdict
            /\ verdictAmount' = verdictAmount
            /\ shown' = shown
            /\ pc' = "raised"
            /\ exc' = "TypeError"
    /\ UNCHANGED <<inputVars, now, errors, notices, geoVars, wxVars, pdfVars>>

FreeShowVerdict ==
    /\ view = "free"
    /\ pc = "verdict"
    /\ steps' = Append(steps, "verdict")
    /\ IF CanCompare(weather_data.precipitation_sum)
       THEN /\ verdict' = ScreenVerdict(weather_data.precipitation_sum)
            /\ verdictAmount' =
                   ScreenVerdictAmount(weather_data.precipitation_sum)
            /\ shown' = shown \o <<"verdict", "paywall">>
            /\ pc' = "done"
            /\ exc' = exc
       ELSE /\ verdict' = verdict
            /\ verdictAmount' = verdictAmount
            /\ shown' = shown
            /\ pc' = "raised"
            /\ exc' = "TypeError"
    /\ UNCHANGED <<inputVars, now, errors, notices, geoVars, wxVars, pdfVars>>

\* =================================================================
\* Paid view (main, "PAID VIEW - Post-Payment Download")
\* =================================================================
PaidCityMissing(name) == name = <<>> \/ Strip(name) = <<>>

PaidDateNotPast(d, t) == d >= t

PaidValidate ==
    /\ view = "paid"
    /\ pc = "validate"
    /\ steps' = Append(steps, "validate")
    /\ IF PaidCityMissing(city_name)
       THEN /\ errors' = Append(errors, ErrEnterCity)
            /\ pc' = "failed"
       ELSE IF PaidDateNotPast(incident_date, today)
       THEN /\ errors' = Append(errors, ErrDatePast)
            /\ pc' = "failed"
       ELSE /\ errors' = errors
            /\ pc' = "geocode"
    /\ UNCHANGED <<inputVars, now, notices, geoVars, wxVars, screenVars, pdfVars, exc>>

PaidResolve ==
    /\ view = "paid"
    /\ pc = "geocode"
    /\ steps' = Append(steps, "geocode")
    /\ \E resp \in GeoResponses :
         LET r == geocode_city(resp) IN
         /\ geoResp' = resp
         /\ geoArg' = Strip(city_name)
         /\ geoCalls' = geoCalls + r.requests
         /\ latitude' = r.latitude
         /\ longitude' = r.longitude
         /\ location_full' = r.full_location
         /\ IF IsNone(r.latitude)
            THEN /\ errors' = errors \o r.errors \o <<ErrNotFound>>
                 /\ notices' = notices
                 /\ pc' = "failed"
            ELSE /\ errors' = errors \o r.errors
                 /\ notices' = Append(notices, NoticeLocation)
                 /\ pc' = "weather"
    /\ UNCHANGED <<inputVars, now, wxVars, screenVars, pdfVars, exc>>

PaidFetch ==
    /\ view = "paid"
    /\ pc = "weather"
    /\ steps' = Append(steps, "weather")
    /\ \E resp \in WxResponses :
         LET w == get_historical_weather(resp) IN
         /\ wxResp' = resp
         /\ wxArg' = WxParams(latitude, longitude, incident_date)
         /\ wxCalls' = wxCalls + w.requests
         /\ weather_data' = w.data
         /\ IF w.data.isNone
            THEN /\ errors' = errors \o w.errors \o <<ErrNoWeather>>
                 /\ notices' = notices
                 /\ pc' = "failed"
            ELSE /\ errors' = errors \o w.errors
                 /\ notices' = Append(notices, NoticeWeather)
                 /\ pc' = "pdf_tables"
    /\ UNCHANGED <<inputVars, now, geoVars, screenVars, pdfVars, exc>>

\* generate_pdf_report up to the weather table: title, report date,
\* location table (coordinates formatted), incident table, weather table
\* (the five metrics formatted)
PdfHeaderOk(lat, lon) == CanFormat(lat) /\ CanFormat(lon)

PdfWeatherTableOk(data) ==
    /\ CanFormat(data.precipitation_sum)
    /\ CanFormat(data.precipitation_hours)
    /\ CanFormat(data.temperature_max)
    /\ CanFormat(data.temperature_min)
    /\ CanFormat(data.windspeed_max)

\* an exception inside the try block of the paid view unwinds
\* generate_pdf_report (its elements list is lost) and is reported
PaidPdfError ==
    /\ errors' = Append(errors, ErrPdf)
    /\ pdfElements' = <<>>
    /\ pdfVerdict' = NoVerdict
    /\ pdfVerdictAmount' = <<>>
    /\ pdfTables' = NoTables
    /\ reportDate' = NoDate
    /\ download' = FALSE
    /\ notices' = notices
    /\ pc' = "failed"

\* the tables with the precipitation hours written with {:.2f}
PdfTablesHoursTwoPlaces(location, lat, lon, day, data) ==
    [location |-> location,
     coordinates |-> <<FormatFixed(lat, 4), FormatFixed(lon, 4)>>,
     timezone |-> data.timezone,
     incident |-> DatePhrase(day),
     weather |-> <<FormatFixed(data.precipitation_sum, 2),
                   FormatFixed(data.precipitation_hours, 2),
                   FormatFixed(data.temperature_max, 1),
                   FormatFixed(data.temperature_min, 1),
                   FormatFixed(data.windspeed_max, 1)>>]

\* location_data and weather_table_data
PdfTables(location, lat, lon, day, data) ==
    [location |-> location,
     coordinates |-> <<FormatFixed(lat, 4), FormatFixed(lon, 4)>>,
     timezone |-> data.timezone,
     incident |-> DatePhrase(day),
     weather |-> <<FormatFixed(data.precipitation_sum, 2),
                   FormatFixed(data.precipitation_hours, 1),
                   FormatFixed(data.temperature_max, 1),
                   FormatFixed(data.temperature_min, 1),
                   FormatFixed(data.windspeed_max, 1)>>]

\* datetime.now() is read for the report date before any table is built
PaidPdfTables ==
    /\ view = "paid"
    /\ pc = "pdf_tables"
    /\ steps' = Append(steps, "pdf_tables")
    /\ \E t \in now..MaxClock : now' = t
    /\ IF PdfHeaderOk(latitude, longitude) /\ PdfWeatherTableOk(weather_data)
       THEN /\ pdfElements' = <<"title", "report_date", "location",
                                "incident", "weather">>
            /\ reportDate' = now' \div TicksPerMinute
            /\ pdfTables' = PdfTables(location_full, latitude, longitude,
                                      incident_date, weather_data)
            /\ pc' = "pdf_verdict"
            /\ UNCHANGED <<errors, notices, pdfVerdict, pdfVerdictAmount,
                           download>>
       ELSE PaidPdfError
    /\ UNCHANGED <<inputVars, geoVars, wxVars, screenVars, exc>>

PaidPdfVerdict ==
    /\ view = "paid"
    /\ pc = "pdf_verdict"
    /\ steps' = Append(steps, "pdf_verdict")
    /\ IF CanCompare(weather_data.precipitation_sum)
       THEN /\ pdfVerdict' = PdfVerdict(weather_data.precipitation_sum)
            /\ pdfVerdictAmount' =
                   PdfVerdictAmount(weather_data.precipitation_sum)
            /\ pdfElements' = Append(pdfElements, "verdict")
            /\ pc' = "pdf_build"
            /\ UNCHANGED <<errors, notices, download, pdfTables, reportDate>>
       ELSE PaidPdfError
    /\ UNCHANGED <<inputVars, now, geoVars, wxVars, screenVars, exc>>

\* data source, footer, doc.build, then st.download_button and st.success
PaidPdfBuild ==
    /\ view = "paid"
    /\ pc = "pdf_build"
    /\ steps' = Append(steps, "pdf_build")
    /\ pdfElements' = pdfElements \o <<"source", "footer">>
    /\ download' = TRUE
    /\ notices' = Append(notices, NoticePdf)
    /\ pc' = "done"
    /\ UNCHANGED <<inputVars, now, errors, geoVars, wxVars, screenVars,
                   pdfVerdict, pdfVerdictAmount, pdfTables, reportDate, exc>>

\* =================================================================
\* A session: Streamlit runs the script again, from its first statement,
\* each time the user submits the form
\* =================================================================
\* what generate_pdf_report was called with
PdfArgs ==
    [city_name |-> city_name, incident_date |-> incident_date,
     location_full |-> location_full, latitude |-> latitude,
     longitude |-> longitude, weather_data |-> weather_data]

\* what generate_pdf_report put in the document
ReportContents ==
    [elements |-> pdfElements, generated |-> reportDate,
     tables |-> pdfTables, verdict |-> pdfVerdict,
     amount |-> pdfVerdictAmount]

\* the steps of a run that validate, resolve and fetch
CoreSteps(ss) == SubSeq(ss, 1, IF Len(ss) < 3 THEN Len(ss) ELSE 3)

\* the finished run as a later run of the session is compared with it:
\* its verdict ("verdict"), its whole report together with what the
\* services answered ("report"), or how a free-view run went together
\* with what the services answered ("core")
Summary(kind) ==
    [kind |-> kind,
     precipitation |-> weather_data.precipitation_sum,
     hours |-> weather_data.precipitation_hours,
     verdict |-> IF view = "free" THEN verdict ELSE pdfVerdict,
     core |-> IF kind = "core"
              THEN [steps |-> CoreSteps(steps), errors |-> errors, pc |-> pc]
              ELSE NoCore,
     geoResp |-> IF kind = "verdict" THEN NoGeoResponse ELSE geoResp,
     wxResp |-> IF kind = "verdict" THEN NoWxResponse ELSE wxResp,
     args |-> IF kind = "report" THEN PdfArgs ELSE NoArgs,
     contents |-> IF kind = "report" THEN ReportContents ELSE NoContents]

\* the same form is submitted a second time; the clock is not set back
Resubmit ==
    /\ pc \in {"done", "failed", "raised"}
    /\ prev.kind = "none"
    /\ \E kind \in {"verdict", "report", "core"} :
         /\ kind = "report" => (view = "paid" /\ pc = "done")
         /\ kind = "core" => view = "free"
         /\ prev' = IF pc = "done" \/ kind = "core"
                    THEN Summary(kind) ELSE prev
         /\ payment' \in IF kind = "verdict"
                       THEN {NoPayment, PaymentConfirmed}
                       ELSE {PaymentConfirmed}
         /\ view' = ViewOf(payment')
    /\ pc' = "validate"
    /\ steps' = <<>>
    /\ errors' = <<>>
    /\ notices' = <<>>
    /\ geoResp' = NoGeoResponse
    /\ wxResp' = NoWxResponse
    /\ geoCalls' = 0
    /\ wxCalls' = 0
    /\ geoArg' = <<>>
    /\ wxArg' = NoArg
    /\ latitude' = None
    /\ longitude' = None
    /\ location_full' = <<>>
    /\ weather_data' = NoData
    /\ shown' = <<>>
    /\ verdict' = NoVerdict
    /\ pdfElements' = <<>>
    /\ pdfVerdict' = NoVerdict
    /\ download' = FALSE
    /\ exc' = "none"
    /\ verdictAmount' = <<>>
    /\ pdfVerdictAmount' = <<>>
    /\ pdfTables' = NoTables
    /\ reportDate' = NoDate
    /\ UNCHANGED <<city_name, incident_date, today, cancelRequested, now,
                   other, switches, interleaved>>

\* the services answer a run that repeats a recorded run as they
\* answered the recorded run
SameGeoAnswer ==
    IF prev.kind \in {"report", "core"} THEN geoResp' = prev.geoResp ELSE TRUE

SameWxAnswer ==
    IF prev.kind \in {"report", "core"} THEN wxResp' = prev.wxResp ELSE TRUE

PaidResolveInSession == SameGeoAnswer /\ PaidResolve
PaidFetchInSession == SameWxAnswer /\ PaidFetch

NextSession ==
    \/ FreeValidate
    \/ FreeResolve
    \/ FreeFetch
    \/ FreeShowMetrics
    \/ FreeShowVerdict
    \/ PaidValidate
    \/ PaidResolveInSession
    \/ PaidFetchInSession
    \/ PaidPdfTables
    \/ PaidPdfVerdict
    \/ PaidPdfBuild
    \/ Resubmit

SessionCity == <<"x">>

InitSession ==
    /\ payment \in {NoPayment, PaymentConfirmed}
    /\ view = ViewOf(payment)
    /\ city_name = SessionCity
    /\ today = 1
    /\ incident_date = 0
    /\ now = 0
    /\ cancelRequested = FALSE
    /\ prev = NoPrev
    /\ other = NoOther
    /\ switches = 0
    /\ interleaved = FALSE
    /\ RunStart

SpecSession == InitSession /\ [][NextSession]_vars

\* a run whose user has asked to stop it before it starts
InitCancel ==
    /\ payment \in {NoPayment, PaymentConfirmed}
    /\ view = ViewOf(payment)
    /\ city_name = SessionCity
    /\ today = 1
    /\ incident_date = 0
    /\ now = 0
    /\ cancelRequested = TRUE
    /\ prev = NoPrev
    /\ other = NoOther
    /\ switches = 0
    /\ interleaved = FALSE
    /\ RunStart

\* =================================================================
\* Two sessions: Streamlit runs the script of each browser session in a
\* thread of its own; the threads take turns at any point of the script
\* =================================================================
MaxSwitches == 3

\* what a script thread holds of its own: the page's query parameter and
\* widgets, main's local variables, what it has rendered
RunLocal ==
    [payment |-> payment, view |-> view, city_name |-> city_name,
     incident_date |-> incident_date, today |-> today, pc |-> pc,
     steps |-> steps, errors |-> errors, notices |-> notices,
     geoResp |-> geoResp, wxResp |-> wxResp, geoCalls |-> geoCalls,
     wxCalls |-> wxCalls, geoArg |-> geoArg, wxArg |-> wxArg,
     latitude |-> latitude, longitude |-> longitude,
     location_full |-> location_full, weather_data |-> weather_data,
     shown |-> shown, verdict |-> verdict, pdfElements |-> pdfElements,
     pdfVerdict |-> pdfVerdict, download |-> download, exc |-> exc,
     verdictAmount |-> verdictAmount,
     pdfVerdictAmount |-> pdfVerdictAmount, pdfTables |-> pdfTables,
     reportDate |-> reportDate]

\* the script of a session whose form has just been submitted
FreshRun(param) ==
    [payment |-> param, view |-> ViewOf(param), city_name |-> SessionCity,
     incident_date |-> 0, today |-> 1, pc |-> "validate", steps |-> <<>>,
     errors |-> <<>>, notices |-> <<>>, geoResp |-> NoGeoResponse,
     wxResp |-> NoWxResponse, geoCalls |-> 0, wxCalls |-> 0,
     geoArg |-> <<>>, wxArg |-> NoArg, latitude |-> None,
     longitude |-> None, location_full |-> <<>>, weather_data |-> NoData,
     shown |-> <<>>, verdict |-> NoVerdict, pdfElements |-> <<>>,
     pdfVerdict |-> NoVerdict, download |-> FALSE, exc |-> "none",
     verdictAmount |-> <<>>, pdfVerdictAmount |-> <<>>,
     pdfTables |-> NoTables, reportDate |-> NoDate]

\* a script that has begun and not ended
UnderWay(run) ==
    run.steps # <<>> /\ run.pc \notin {"done", "failed", "raised"}

\* the threads take turns with weather_data kept in one place for both
SwitchSharingWeather ==
    /\ switches < MaxSwitches
    /\ other # NoOther
    /\ switches' = switches + 1
    /\ interleaved' = (interleaved \/ (UnderWay(RunLocal) /\ UnderWay(other)))
    /\ other' = RunLocal
    /\ payment' = other.payment
    /\ view' = other.view
    /\ city_name' = other.city_name
    /\ incident_date' = other.incident_date
    /\ today' = other.today
    /\ pc' = other.pc
    /\ steps' = other.steps
    /\ errors' = other.errors
    /\ notices' = other.notices
    /\ geoResp' = other.geoResp
    /\ wxResp' = other.wxResp
    /\ geoCalls' = other.geoCalls
    /\ wxCalls' = other.wxCalls
    /\ geoArg' = other.geoArg
    /\ wxArg' = other.wxArg
    /\ latitude' = other.latitude
    /\ longitude' = other.longitude
    /\ location_full' = other.location_full
    /\ weather_data' = weather_data
    /\ shown' = other.shown
    /\ verdict' = other.verdict
    /\ pdfElements' = other.pdfElements
    /\ pdfVerdict' = other.pdfVerdict
    /\ download' = other.download
    /\ exc' = other.exc
    /\ verdictAmount' = other.verdictAmount
    /\ pdfVerdictAmount' = other.pdfVerdictAmount
    /\ pdfTables' = other.pdfTables
    /\ reportDate' = other.reportDate
    /\ UNCHANGED <<now, cancelRequested, prev>>

\* the threads take turns: the running script is set aside with all it
\* holds and the other one goes on where it was; the clock is the one
\* thing both read
Switch ==
    /\ switches < MaxSwitches
    /\ other # NoOther
    /\ switches' = switches + 1
    /\ interleaved' = (interleaved \/ (UnderWay(RunLocal) /\ UnderWay(other)))
    /\ other' = RunLocal
    /\ payment' = other.payment
    /\ view' = other.view
    /\ city_name' = other.city_name
    /\ incident_date' = other.incident_date
    /\ today' = other.today
    /\ pc' = other.pc
    /\ steps' = other.steps
    /\ errors' = other.errors
    /\ notices' = other.notices
    /\ geoResp' = other.geoResp
    /\ wxResp' = other.wxResp
    /\ geoCalls' = other.geoCalls
    /\ wxCalls' = other.wxCalls
    /\ geoArg' = other.geoArg
    /\ wxArg' = other.wxArg
    /\ latitude' = other.latitude
    /\ longitude' = other.longitude
    /\ location_full' = other.location_full
    /\ weather_data' = other.weather_data
    /\ shown' = other.shown
    /\ verdict' = other.verdict
    /\ pdfElements' = other.pdfElements
    /\ pdfVerdict' = other.pdfVerdict
    /\ download' = other.download
    /\ exc' = other.exc
    /\ verdictAmount' = other.verdictAmount
    /\ pdfVerdictAmount' = other.pdfVerdictAmount
    /\ pdfTables' = other.pdfTables
    /\ reportDate' = other.reportDate
    /\ UNCHANGED <<now, cancelRequested, prev>>

\* the answers the services give in the two-session runs: a transport
\* failure, no candidate, a candidate; a transport failure, a dry day, a
\* wet day, a null reading
ConcurrentGeoResponses ==
    {g \in GeoResponses :
        \/ g.kind = "transport"
        \/ /\ g.kind = "json"
           /\ g.hasResults
           /\ \/ g.results = <<>>
              \/ /\ g.results[1].admin1 = MissingStr
                 /\ g.results[1].country = MissingStr
                 /\ g.results[1].latitude \in {Num(0), Num(51000)}}

ConcurrentWxResponses ==
    {w \in WxResponses :
        \/ w.kind = "transport"
        \/ /\ w.kind = "json"
           /\ w.hasDaily
           /\ w.timezone = MissingStr
           /\ w.daily.precipitation_sum
                 \in {One(Null), One(Num(0)), One(Num(12400))}
           /\ w.daily.precipitation_hours = One(Num(OtherValue))
           /\ w.daily.windspeed_10m_max = One(Num(OtherValue))
           /\ w.daily.temperature_2m_max = One(Num(OtherValue))
           /\ w.daily.time = One(Num(0))}

FreeResolveConcurrent == geoResp' \in ConcurrentGeoResponses /\ FreeResolve
PaidResolveConcurrent == geoResp' \in ConcurrentGeoResponses /\ PaidResolve
FreeFetchConcurrent == wxResp' \in ConcurrentWxResponses /\ FreeFetch
PaidFetchConcurrent == wxResp' \in ConcurrentWxResponses /\ PaidFetch

NextConcurrent ==
    \/ FreeValidate
    \/ FreeResolveConcurrent
    \/ FreeFetchConcurrent
    \/ FreeShowMetrics
    \/ FreeShowVerdict
    \/ PaidValidate
    \/ PaidResolveConcurrent
    \/ PaidFetchConcurrent
    \/ PaidPdfTables
    \/ PaidPdfVerdict
    \/ PaidPdfBuild
    \/ Switch

InitConcurrent ==
    /\ payment \in {NoPayment, PaymentConfirmed}
    /\ view = ViewOf(payment)
    /\ city_name = SessionCity
    /\ today = 1
    /\ incident_date = 0
    /\ now = 0
    /\ cancelRequested = FALSE
    /\ prev = NoPrev
    /\ other \in {FreshRun(param) : param \in {NoPayment, PaymentConfirmed}}
    /\ switches = 0
    /\ interleaved = FALSE
    /\ RunStart

SpecConcurrent == InitConcurrent /\ [][NextConcurrent]_vars

\* =================================================================
Next ==
    \/ FreeValidate
    \/ FreeResolve
    \/ FreeFetch
    \/ FreeShowMetrics
    \/ FreeShowVerdict
    \/ PaidValidate
    \/ PaidResolve
    \/ PaidFetch
    \/ PaidPdfTables
    \/ PaidPdfVerdict
    \/ PaidPdfBuild

Spec == Init /\ [][Next]_vars

SpecCancel == InitCancel /\ [][Next]_vars

\* a submission from a page opened with any value of the payment parameter
InitPayment ==
    /\ payment \in {NoPayment, PaymentConfirmed, PaymentOther}
    /\ view = ViewOf(payment)
    /\ city_name = SessionCity
    /\ today = 1
    /\ incident_date = 0
    /\ now = 0
    /\ cancelRequested = FALSE
    /\ prev = NoPrev
    /\ other = NoOther
    /\ switches = 0
    /\ interleaved = FALSE
    /\ RunStart

SpecPayment == InitPayment /\ [][Next]_vars

TypeOK ==
    /\ pc \in {"validate", "geocode", "weather", "metrics", "verdict",
               "pdf_tables", "pdf_verdict", "pdf_build",
               "done", "failed", "raised"}
    /\ geoCalls \in Nat
    /\ wxCalls \in Nat

\* =================================================================
\* Properties
\* =================================================================
Range(seq) == {seq[i] : i \in 1..Len(seq)}

IsBlankName(name) == \A i \in 1..Len(name) : name[i] = " "

ZeroCandidates(resp) ==
    resp.kind = "json" /\ (~resp.hasResults \/ resp.results = <<>>)

NoReport ==
    /\ shown = <<>>
    /\ verdict = NoVerdict
    /\ pdfElements = <<>>
    /\ pdfVerdict = NoVerdict
    /\ ~download

IsSignificant(p) == p.t = "num" /\ p.v > 5000

\* C1: whenever a verdict is given, on the page or in the PDF, it is
\* SIGNIFICANT RAIN exactly when the precipitation sum is greater than
\* 5.0 mm; 5.0 mm itself gives MINOR/NO RAIN.
C1_VerdictIffAboveThreshold ==
    /\ verdict # NoVerdict =>
         (verdict = SIGNIFICANT <=> IsSignificant(weather_data.precipitation_sum))
    /\ verdict # NoVerdict => verdict \in {SIGNIFICANT, MINOR}
    /\ pdfVerdict # NoVerdict =>
         (pdfVerdict = SIGNIFICANT <=> IsSignificant(weather_data.precipitation_sum))
    /\ pdfVerdict # NoVerdict => pdfVerdict \in {SIGNIFICANT, MINOR}

C1_Witness ==
    /\ weather_data.precipitation_sum = Num(5000)
    /\ verdict = MINOR
    /\ pc = "done"

\* C3: when the geocoder answers with zero candidates the run has failed
\* with the location-not-found message as its only error, and the archive
\* has not been called.
C3_ZeroCandidatesNotFound ==
    ZeroCandidates(geoResp) =>
        /\ pc = "failed"
        /\ errors = <<ErrNotFound>>
        /\ wxCalls = 0
        /\ wxResp = NoWxResponse

C3_Witness ==
    /\ ZeroCandidates(geoResp)
    /\ geoResp.hasResults
    /\ geoCalls = 1
    /\ pc = "failed"

\* C4: when the archive's body has no "daily" key (valid place, valid past
\* date) the run has failed with the weather-data-unavailable message as
\* its only error and no report item, verdict or PDF exists.
C4_NoDailyUnavailable ==
    (wxResp.kind = "json" /\ ~wxResp.hasDaily) =>
        /\ pc = "failed"
        /\ errors = <<ErrNoWeather>>
        /\ NoReport

C4_Witness ==
    /\ wxResp.kind = "json"
    /\ ~wxResp.hasDaily
    /\ incident_date = today - 1
    /\ pc = "failed"

\* C5: a place name that is empty or all whitespace never leads to a
\* request to the geocoding service or to the archive.
C5_BlankNameNoNetwork ==
    IsBlankName(city_name) =>
        /\ geoCalls = 0
        /\ wxCalls = 0
        /\ geoResp = NoGeoResponse
        /\ wxResp = NoWxResponse
        /\ pc \in {"validate", "failed"}

C5_Witness ==
    /\ Len(city_name) >= 1
    /\ IsBlankName(city_name)
    /\ pc = "failed"
    /\ errors = <<ErrEnterCity>>

\* C6: once a run with a usable place name has been validated, a date
\* equal to today or later has been rejected with the must-be-in-the-past
\* message before any request, and a date strictly earlier than today
\* (yesterday included) has passed validation.
C6_DateMustBePast ==
    (steps # <<>> /\ ~IsBlankName(city_name)) =>
        /\ incident_date >= today =>
             (pc = "failed" /\ errors = <<ErrDatePast>> /\ geoCalls = 0)
        /\ incident_date < today =>
             (ErrDatePast \notin Range(errors)
              /\ (Len(steps) = 1 => pc = "geocode"))

C6_Witness ==
    /\ ~IsBlankName(city_name)
    /\ incident_date = today
    /\ pc = "failed"
    /\ errors = <<ErrDatePast>>

\* C10: in one run the geocoding service receives at most one request and
\* the archive receives at most one request, whatever they answer.
C10_NoRetries == geoCalls <= 1 /\ wxCalls <= 1

C10_Witness ==
    /\ geoCalls = 1
    /\ wxCalls = 1
    /\ wxResp.kind = "transport"
    /\ pc = "failed"

IsPrefix(a, b) == Len(a) <= Len(b) /\ a = SubSeq(b, 1, Len(a))

Last(seq) == seq[Len(seq)]

\* the positions of main in source order, per view
FreeOrder == <<"validate", "geocode", "weather", "metrics", "verdict">>
PaidOrder == <<"validate", "geocode", "weather", "pdf_tables", "pdf_verdict",
               "pdf_build">>
CodeOrder == IF view = "free" THEN FreeOrder ELSE PaidOrder

FullScreenReport == <<"rainfall", "temperature", "wind", "verdict", "paywall">>

\* a failed run stopped at the stage that reported the failure
StoppedAtFailure ==
    /\ (ErrEnterCity \in Range(errors) \/ ErrDatePast \in Range(errors)) =>
         steps = <<"validate">>
    /\ ErrNotFound \in Range(errors) => steps = <<"validate", "geocode">>
    /\ ErrNoWeather \in Range(errors) =>
         steps = <<"validate", "geocode", "weather">>
    /\ ErrPdf \in Range(errors) =>
         (pc = "failed" /\ Last(steps) \in {"pdf_tables", "pdf_verdict"})
    /\ exc # "none" => (pc = "raised" /\ Last(steps) \in {"metrics", "verdict"})

\* C2 (as claimed): a run that ended by the failure of a stage reports a
\* reason, ran no stage after the one that failed, and has neither
\* produced nor exposed any part of a report.
C2_FailureShortCircuits ==
    pc \in {"failed", "raised"} =>
        /\ (errors # <<>> \/ exc # "none")
        /\ StoppedAtFailure
        /\ NoReport

\* C7 (as claimed): a run that ends in Done has exactly one report and no
\* failure reason; a run that ends in Failed has exactly one failure
\* reason.
C7_ExactlyOneOutcome ==
    /\ pc = "done" =>
         /\ errors = <<>>
         /\ view = "free" => (shown = FullScreenReport /\ verdict # NoVerdict)
         /\ view = "paid" => (download /\ pdfVerdict # NoVerdict)
    /\ pc = "failed" => Len(errors) = 1

\* C8 (as claimed): after a failed resolve the run reports location not
\* found exactly when the geocoder answered with zero candidates, and
\* reports the geocoding service as unavailable (and not the location as
\* not found) after a transport failure, a non-2xx response or a
\* malformed body.
C8_ResolverOutcomesDistinct ==
    (pc = "failed" /\ steps = <<"validate", "geocode">>) =>
        /\ ZeroCandidates(geoResp) => errors = <<ErrNotFound>>
        /\ ~ZeroCandidates(geoResp) =>
             /\ errors # <<>>
             /\ Range(errors) \subseteq {ErrGeoConnect, ErrGeoUnexpected}

\* the stage of the specification each position of main belongs to
StageOf(step) ==
    CASE step = "validate" -> "Validating"
      [] step = "geocode" -> "Resolving"
      [] step = "weather" -> "Fetching"
      [] step \in {"metrics", "pdf_tables", "pdf_build"} -> "Assembling"
      [] step \in {"verdict", "pdf_verdict"} -> "Classifying"

\* the stages a run has started, in order (a stage resumed later counts
\* again)
RECURSIVE StagesOf(_)
StagesOf(ss) ==
    IF ss = <<>> THEN <<>>
    ELSE LET front == StagesOf(SubSeq(ss, 1, Len(ss) - 1))
             stage == StageOf(Last(ss))
         IN IF front # <<>> /\ Last(front) = stage THEN front
            ELSE Append(front, stage)

ClaimedOrder ==
    <<"Validating", "Resolving", "Fetching", "Classifying", "Assembling">>

\* each stage that has started had the previous stage's result
ResultsBeforeUse ==
    /\ "geocode" \in Range(steps) =>
         (~IsBlankName(city_name) /\ incident_date < today)
    /\ "weather" \in Range(steps) => (latitude.t = "num" /\ geoCalls = 1)
    /\ (\E st \in {"metrics", "pdf_tables"} : st \in Range(steps)) =>
         (~weather_data.isNone /\ wxCalls = 1)
    /\ "verdict" \in Range(steps) =>
         IsPrefix(<<"rainfall", "temperature", "wind">>, shown)
    /\ "pdf_build" \in Range(steps) => pdfVerdict # NoVerdict

DoneAfterAll ==
    pc = "done" => (steps = CodeOrder /\ errors = <<>> /\ exc = "none")

Separator == <<",", " ">>

\* the geocoding call of this run succeeded with the candidate c
ResolvedWith(c) ==
    /\ geoResp.kind = "json"
    /\ geoResp.hasResults
    /\ geoResp.results = <<c>>
    /\ latitude.t = "num"

\* C11: after a successful geocode the display name is the candidate's
\* name, then ", " and the region if the service returned a region, then
\* ", " and the country if the service returned a country; a field that
\* was not returned adds nothing, not even a separator.
C11_DisplayName ==
    \A c \in Candidates :
        ResolvedWith(c) =>
            location_full =
                c.name.v
                \o (IF c.admin1.t = "str" THEN Separator \o c.admin1.v ELSE <<>>)
                \o (IF c.country.t = "str" THEN Separator \o c.country.v ELSE <<>>)

C11_Witness ==
    /\ \E c \in Candidates :
         ResolvedWith(c) /\ c.admin1.t = "str" /\ c.country.t = "str"
    /\ location_full = <<"L", ",", " ", "E", ",", " ", "U">>
    /\ pc = "weather"

FiveMetricsReturned(daily) ==
    /\ daily.precipitation_sum.s = "one"
    /\ daily.precipitation_hours.s = "one"
    /\ daily.windspeed_10m_max.s = "one"
    /\ daily.temperature_2m_max.s = "one"
    /\ daily.temperature_2m_min.s = "one"

MetricsAreIndexZero(daily) ==
    /\ ~weather_data.isNone
    /\ weather_data.precipitation_sum = daily.precipitation_sum.x
    /\ weather_data.precipitation_hours = daily.precipitation_hours.x
    /\ weather_data.windspeed_max = daily.windspeed_10m_max.x
    /\ weather_data.temperature_max = daily.temperature_2m_max.x
    /\ weather_data.temperature_min = daily.temperature_2m_min.x

\* C12 (as claimed): a body whose daily object has a one-entry series for
\* each of the five metrics makes the fetch succeed with each metric equal
\* to index 0 of its series, whatever else the body holds.
C12_FiveMetricsSuffice ==
    (wxResp.kind = "json" /\ wxResp.hasDaily
     /\ FiveMetricsReturned(wxResp.daily)) =>
        MetricsAreIndexZero(wxResp.daily)

\* C12 (amended): a body whose daily object has a one-entry series for
\* each of the five metrics and for "time" makes the fetch succeed without
\* an error message, each metric equal to index 0 of its series and the
\* timezone equal to the returned label, or "UTC" when none was returned;
\* without the "time" series the fetch fails although the five metrics
\* are there.
C12_MetricsAndTimeSuffice ==
    (wxResp.kind = "json" /\ wxResp.hasDaily
     /\ FiveMetricsReturned(wxResp.daily)) =>
        IF wxResp.daily.time.s = "one"
        THEN /\ MetricsAreIndexZero(wxResp.daily)
             /\ weather_data.date = wxResp.daily.time.x
             /\ weather_data.timezone =
                  (IF wxResp.timezone.t = "str" THEN wxResp.timezone.v
                   ELSE <<"U", "T", "C">>)
             /\ Range(errors) \cap {ErrWxConnect, ErrWxUnexpected,
                                   ErrNoWeather} = {}
        ELSE /\ weather_data.isNone
             /\ errors = <<ErrWxUnexpected, ErrNoWeather>>
             /\ pc = "failed"

C12_Witness ==
    /\ wxCalls = 1
    /\ wxResp.kind = "json"
    /\ wxResp.hasDaily
    /\ FiveMetricsReturned(wxResp.daily)
    /\ wxResp.daily.time.s = "one"
    /\ wxResp.daily.windspeed_10m_max.x = Null
    /\ wxResp.daily.precipitation_hours.x = Num(1500)
    /\ wxResp.timezone.t = "missing"
    /\ ~weather_data.isNone

OtherMetricsNumeric ==
    /\ weather_data.precipitation_hours.t = "num"
    /\ weather_data.windspeed_max.t = "num"
    /\ weather_data.temperature_max.t = "num"
    /\ weather_data.temperature_min.t = "num"

GivenVerdict == IF view = "free" THEN verdict ELSE pdfVerdict

\* C13 (as claimed): whatever precipitation value the fetch delivered
\* (the other metrics being numbers), the run ends with a verdict, and the
\* verdict is MINOR/NO RAIN when the value is negative or not a number.
C13_ClassificationTotal ==
    (~weather_data.isNone /\ OtherMetricsNumeric
     /\ pc \in {"done", "failed", "raised"}) =>
        /\ pc = "done"
        /\ GivenVerdict \in {SIGNIFICANT, MINOR}
        /\ (weather_data.precipitation_sum.t # "num"
            \/ weather_data.precipitation_sum.v < 0) => GivenVerdict = MINOR

\* C17 (as claimed): after a successful geocode the latitude is within
\* -90..90 degrees and the longitude within -180..180 degrees, whatever
\* candidate the service returned.
C17_CoordinatesInRange ==
    (geoCalls = 1 /\ latitude.t = "num") =>
        /\ longitude.t = "num"
        /\ 0 - 90000 <= latitude.v /\ latitude.v <= 90000
        /\ 0 - 180000 <= longitude.v /\ longitude.v <= 180000

\* the fetch failures named by C18: a transport error or timeout, a
\* non-2xx status, a body without the "daily" key
FetchFailure(resp) ==
    \/ resp.kind \in {"transport", "http_error"}
    \/ resp.kind = "json" /\ ~resp.hasDaily

Count(seq, e) == Cardinality({i \in 1..Len(seq) : seq[i] = e})

\* C18: after any failure of the weather fetch (transport error or
\* timeout, non-2xx response, response without the daily series) the fetch
\* has returned None to main and raised nothing, main has reported "Could
\* not retrieve weather data" once, as its last message, and the run has
\* stopped as failed after the weather step with no report.
C18_FetchFailureUnavailable ==
    (wxCalls = 1 /\ FetchFailure(wxResp)) =>
        /\ weather_data = NoData
        /\ exc = "none"
        /\ pc = "failed"
        /\ steps = <<"validate", "geocode", "weather">>
        /\ Last(errors) = ErrNoWeather
        /\ Count(errors, ErrNoWeather) = 1
        /\ NoReport

C18_Witness ==
    /\ wxCalls = 1
    /\ wxResp.kind = "http_error"
    /\ weather_data.isNone
    /\ pc = "failed"
    /\ Last(errors) = ErrNoWeather

\* a "daily" object in which one of the five metric series is missing,
\* empty, or holds a null entry
MetricSeries(daily) ==
    {daily.precipitation_sum, daily.precipitation_hours,
     daily.windspeed_10m_max, daily.temperature_2m_max,
     daily.temperature_2m_min}

MalformedDaily(daily) ==
    \E series \in MetricSeries(daily) :
        series.s \in {"absent", "empty"} \/ series.x.t = "null"

\* C19 (as claimed): a malformed daily object is rejected by the fetch
\* (None returned, the run failed at the weather step), and no run ends
\* with an uncaught exception.
C19_MalformedRejectedAtFetch ==
    /\ pc # "raised"
    /\ (wxCalls = 1 /\ wxResp.kind = "json" /\ wxResp.hasDaily
        /\ MalformedDaily(wxResp.daily)) =>
           /\ weather_data.isNone
           /\ pc = "failed"
           /\ steps = <<"validate", "geocode", "weather">>

\* the digit a character stands for
DigitValue(c) == CHOOSE d \in 0..9 : Digit(d) = c

IsDigit(c) == \E d \in 0..9 : Digit(d) = c

\* the natural number a string of digits denotes
RECURSIVE ParseNat(_)
ParseNat(text) ==
    IF text = <<>> THEN 0
    ELSE 10 * ParseNat(SubSeq(text, 1, Len(text) - 1))
         + DigitValue(text[Len(text)])

Unsigned(text) ==
    IF text # <<>> /\ Head(text) = "-" THEN Tail(text) ELSE text

\* text is [-]d..d.dd : digits, a point, exactly two digits
TwoDecimalPlaces(text) ==
    LET u == Unsigned(text) IN
    /\ Len(u) >= 4
    /\ u[Len(u) - 2] = "."
    /\ \A i \in (1..Len(u)) \ {Len(u) - 2} : IsDigit(u[i])

\* the hundredths a two-decimal text denotes
Hundredths(text) ==
    LET u == Unsigned(text)
        h == 100 * ParseNat(SubSeq(u, 1, Len(u) - 3))
             + ParseNat(SubSeq(u, Len(u) - 1, Len(u)))
    IN IF u = text THEN h ELSE 0 - h

\* amount states the thousandths p to two decimal places: it has two
\* decimals and names the hundredth nearest to p
StatesToTwoPlaces(amount, p) ==
    /\ TwoDecimalPlaces(amount)
    /\ 10 * Hundredths(amount) - p \in (0 - 5)..5
    /\ (amount # Unsigned(amount)) <=> p < 0

\* C16: whichever branch the verdict took, the verdict text of the PDF and
\* of the page states the measured precipitation to exactly two decimal
\* places (a NaN reading is written "nan"); 12.4 mm gives the SIGNIFICANT
\* verdict with "12.40", 0.0 mm the MINOR verdict with "0.00".
C16_AmountTwoDecimals ==
    LET p == weather_data.precipitation_sum IN
    /\ pdfVerdict # NoVerdict =>
         /\ p.t = "num" => StatesToTwoPlaces(pdfVerdictAmount, p.v)
         /\ p.t = "nan" => pdfVerdictAmount = NanText
         /\ p = Num(12400) =>
              /\ pdfVerdict = SIGNIFICANT
              /\ pdfVerdictAmount = <<"1", "2", ".", "4", "0">>
         /\ p = Num(0) =>
              /\ pdfVerdict = MINOR
              /\ pdfVerdictAmount = <<"0", ".", "0", "0">>
    /\ verdict # NoVerdict =>
         /\ p.t = "num" => StatesToTwoPlaces(verdictAmount, p.v)
         /\ p = Num(12400) =>
              /\ verdict = SIGNIFICANT
              /\ verdictAmount = <<"1", "2", ".", "4", "0">>
         /\ p = Num(0) =>
              /\ verdict = MINOR
              /\ verdictAmount = <<"0", ".", "0", "0">>

C16_Witness ==
    /\ view = "paid"
    /\ download
    /\ weather_data.precipitation_sum = Num(12400)
    /\ pdfVerdict = SIGNIFICANT
    /\ pdfVerdictAmount = <<"1", "2", ".", "4", "0">>

C15_SameArgsSameReport ==
    (prev.kind = "report" /\ download /\ PdfArgs = prev.args) =>
        ReportContents = prev.contents

\* C20 (as claimed): once the user has asked to stop the run, no request
\* is made to the geocoding service or to the archive, and the run ends
\* failed with "cancelled" as its reason.
C20_CancelledBeforeCalls ==
    cancelRequested =>
        /\ geoCalls = 0
        /\ wxCalls = 0
        /\ pc \in {"done", "failed", "raised"} =>
             (pc = "failed" /\ errors = <<"cancelled">>)

\* text is [-]d..d.d..d with exactly `places` digits after the point
HasPlaces(text, places) ==
    LET u == Unsigned(text) IN
    /\ Len(u) >= places + 2
    /\ u[Len(u) - places] = "."
    /\ \A i \in (1..Len(u)) \ {Len(u) - places} : IsDigit(u[i])

\* the number of units of 10^-places such a text denotes
Denoted(text, places) ==
    LET u == Unsigned(text)
        k == Pow10(places) * ParseNat(SubSeq(u, 1, Len(u) - places - 1))
             + ParseNat(SubSeq(u, Len(u) - places + 1, Len(u)))
    IN IF u = text THEN k ELSE 0 - k

\* text states the thousandths p to `places` decimal places: it has that
\* many decimals, is within half a unit of p and carries p's sign
StatesToPlaces(text, p, places) ==
    /\ HasPlaces(text, places)
    /\ 2 * (1000 * Denoted(text, places) - p * Pow10(places))
           \in (0 - 1000)..1000
    /\ (text # Unsigned(text)) <=> p < 0

IsLeapYear(year) ==
    year % 4 = 0 /\ (year % 100 # 0 \/ year % 400 = 0)

\* the ordinal of a calendar date, counted from 0001-01-01 as day 1
Ymd2Ord(year, month, day) ==
    LET y == year - 1 IN
    y * 365 + (y \div 4) - (y \div 100) + (y \div 400)
    + DaysBeforeMonth[month]
    + (IF month > 2 /\ IsLeapYear(year) THEN 1 ELSE 0)
    + day

MonthNumber(name) == CHOOSE m \in 1..12 : MonthNames[m] = name

\* phrase names the date of day number d: full month name, two-digit
\* day, four-digit year, and the weekday that date falls on (0001-01-01
\* was a Monday)
PhrasesDate(phrase, d) ==
    /\ phrase.month \in Range(MonthNames)
    /\ phrase.weekday \in Range(WeekdayNames)
    /\ Len(phrase.day) = 2
    /\ Len(phrase.year) = 4
    /\ Ymd2Ord(ParseNat(phrase.year), MonthNumber(phrase.month),
               ParseNat(phrase.day)) = DayZero + d
    /\ phrase.weekday = WeekdayNames[((DayZero + d - 1) % 7) + 1]

LeapDayPhrase ==
    [month |-> "February", day |-> <<"2", "9">>,
     year |-> <<"2", "0", "2", "4">>, weekday |-> "Thursday"]

\* C22: in the tables of the PDF the precipitation sum is written to 2
\* decimal places (a NaN reading as "nan"), the precipitation hours, both
\* temperatures and the wind speed to 1 decimal place, both coordinates to
\* 4 decimal places, and the incident date as full month name, day, year
\* and weekday name (2024-02-29 as February 29, 2024, Thursday).
C22_ReportFormatting ==
    pdfTables # NoTables =>
        LET t == pdfTables
            w == weather_data
        IN /\ w.precipitation_sum.t = "num" =>
                StatesToPlaces(t.weather[1], w.precipitation_sum.v, 2)
           /\ w.precipitation_sum.t = "nan" => t.weather[1] = NanText
           /\ StatesToPlaces(t.weather[2], w.precipitation_hours.v, 1)
           /\ StatesToPlaces(t.weather[3], w.temperature_max.v, 1)
           /\ StatesToPlaces(t.weather[4], w.temperature_min.v, 1)
           /\ StatesToPlaces(t.weather[5], w.windspeed_max.v, 1)
           /\ StatesToPlaces(t.coordinates[1], latitude.v, 4)
           /\ StatesToPlaces(t.coordinates[2], longitude.v, 4)
           /\ PhrasesDate(t.incident, incident_date)
           /\ incident_date = 1 => t.incident = LeapDayPhrase

C22_Witness ==
    /\ download
    /\ incident_date = 1
    /\ pdfTables.incident = LeapDayPhrase
    /\ weather_data.precipitation_hours = Num(LongRainHours)
    /\ pdfTables.weather[2] = <<"6", ".", "2">>
    /\ latitude = Num(51000)
    /\ pdfTables.coordinates[1] = <<"5", "1", ".", "0", "0", "0", "0">>
    /\ pdfTables.weather[1] = <<"5", ".", "0", "0">>

ValidationReasons == {ErrEnterCity, ErrDatePast}

DownstreamReasons ==
    {ErrNotFound, ErrNoWeather, ErrGeoConnect, ErrGeoUnexpected,
     ErrWxConnect, ErrWxUnexpected, ErrPdf}

\* C23: a run rejected by validation reports exactly one reason, one of
\* the two user-input reasons; no such reason is a reason of a downstream
\* failure, and a run that passed validation never reports one.
C23_ValidationReasonDistinct ==
    /\ ValidationReasons \cap DownstreamReasons = {}
    /\ (pc = "failed" /\ steps = <<"validate">>) =>
          (Len(errors) = 1 /\ errors[1] \in ValidationReasons)
    /\ Len(steps) > 1 =>
          /\ Range(errors) \cap ValidationReasons = {}
          /\ pc = "failed" =>
               (errors # <<>> /\ Range(errors) \subseteq DownstreamReasons)

C23_Witness ==
    /\ pc = "failed"
    /\ steps = <<"validate">>
    /\ ~IsBlankName(city_name)
    /\ incident_date = today
    /\ errors = <<ErrDatePast>>

RECURSIVE Blanks(_)
Blanks(n) == IF n = 0 THEN <<>> ELSE <<Blank>> \o Blanks(n - 1)

\* inner is outer without its leading and trailing blanks
IsTrimOf(inner, outer) ==
    /\ inner # <<>> => (Head(inner) # Blank /\ Last(inner) # Blank)
    /\ \E i, j \in 0..Len(outer) :
         outer = Blanks(i) \o inner \o Blanks(j)

\* C24: no request is made to the resolver before validation has passed;
\* the name it is invoked with is the submitted name without its leading
\* and trailing blanks, and is not empty.
C24_ResolverGetsTrimmedName ==
    /\ geoCalls = 0 => geoArg = <<>>
    /\ geoCalls >= 1 =>
         /\ Head(steps) = "validate"
         /\ ~IsBlankName(city_name)
         /\ geoArg # <<>>
         /\ IsTrimOf(geoArg, city_name)

C24_Witness ==
    /\ geoCalls = 1
    /\ city_name = <<"x", Blank>>
    /\ geoArg = <<"x">>

\* the day number an ISO date text YYYY-MM-DD names
DayOfIso(text) ==
    Ymd2Ord(ParseNat(SubSeq(text, 1, 4)), ParseNat(SubSeq(text, 6, 7)),
            ParseNat(SubSeq(text, 9, 10))) - DayZero

IsIsoDate(text) ==
    /\ Len(text) = 10
    /\ text[5] = "-" /\ text[8] = "-"
    /\ \A i \in (1..10) \ {5, 8} : IsDigit(text[i])

\* C25: the archive request of a run asks for one day, start_date and
\* end_date both naming the validated (past) incident date, at exactly
\* the latitude and longitude of the first candidate the run's geocode
\* call received.
C25_ArchiveRequestSingleDay ==
    wxCalls >= 1 =>
        /\ IsIsoDate(wxArg.start_date)
        /\ wxArg.end_date = wxArg.start_date
        /\ DayOfIso(wxArg.start_date) = incident_date
        /\ incident_date < today
        /\ geoCalls = 1
        /\ wxArg.latitude = geoResp.results[1].latitude
        /\ wxArg.longitude = geoResp.results[1].longitude

C25_Witness ==
    /\ wxCalls = 1
    /\ incident_date = 1
    /\ wxArg.start_date = <<"2", "0", "2", "4", "-", "0", "2", "-", "2", "9">>
    /\ wxArg.end_date = wxArg.start_date
    /\ wxArg.latitude = Num(51000)

EndOf(position, reasons) ==
    CASE position = "done" -> <<"success">>
      [] position = "failed" -> <<"failed", reasons>>
      [] OTHER -> <<"raised">>

\* C26 (as claimed): a paid-view run given the place name, date and
\* service answers of a free-view run takes the same validate, resolve
\* and fetch steps and ends as the free-view run ended: both with
\* success, or both failed with the same reasons.
C26_ViewsRunSameCore ==
    (prev.kind = "core" /\ pc \in {"done", "failed", "raised"}) =>
        /\ CoreSteps(steps) = prev.core.steps
        /\ EndOf(pc, errors) = EndOf(prev.core.pc, prev.core.errors)
        /\ prev.core.pc \in {"done", "failed"}

\* C27: the verdict written in the PDF of a paid-view run is the verdict
\* the page showed in a free-view run of the same submission with the
\* same service answers, for every precipitation value, 5.0 included.
C27_ScreenAndPdfVerdictAgree ==
    (prev.kind = "core" /\ prev.verdict # NoVerdict
     /\ pdfVerdict # NoVerdict) =>
        /\ prev.precipitation = weather_data.precipitation_sum
        /\ pdfVerdict = prev.verdict

C27_Witness ==
    /\ prev.kind = "core"
    /\ view = "paid"
    /\ download
    /\ weather_data.precipitation_sum = Num(RainThreshold)
    /\ prev.verdict = MINOR
    /\ pdfVerdict = MINOR

\* what a run leaves to its user
RunOutcome(run) ==
    [pc |-> run.pc, errors |-> run.errors, exc |-> run.exc,
     shown |-> run.shown, verdict |-> run.verdict,
     verdictAmount |-> run.verdictAmount,
     pdfVerdict |-> run.pdfVerdict,
     pdfVerdictAmount |-> run.pdfVerdictAmount,
     pdfTables |-> run.pdfTables, download |-> run.download]

NothingShown ==
    [pc |-> "failed", errors |-> <<>>, exc |-> "none",
     shown |-> <<>>, verdict |-> NoVerdict, verdictAmount |-> <<>>,
     pdfVerdict |-> NoVerdict, pdfVerdictAmount |-> <<>>,
     pdfTables |-> NoTables, download |-> FALSE]

\* main run from its first statement to its last on its own, as a
\* function of the page's payment parameter, the form, the date of the
\* day and what the two services answer
AloneOutcome(param, name, d, t, g, w) ==
    IF name = <<>> \/ Strip(name) = <<>>
    THEN [NothingShown EXCEPT !.errors = <<ErrEnterCity>>]
    ELSE IF d >= t
    THEN [NothingShown EXCEPT !.errors = <<ErrDatePast>>]
    ELSE LET r == geocode_city(g) IN
    IF IsNone(r.latitude)
    THEN [NothingShown EXCEPT !.errors = r.errors \o <<ErrNotFound>>]
    ELSE LET x == get_historical_weather(w)
             p == x.data.precipitation_sum
             cols == MetricColumns(x.data)
         IN
    IF x.data.isNone
    THEN [NothingShown EXCEPT
            !.errors = r.errors \o x.errors \o <<ErrNoWeather>>]
    ELSE IF ~IsPaid(param)
    THEN IF Len(Rendered(cols)) = Len(cols) /\ CanCompare(p)
         THEN [NothingShown EXCEPT
                 !.pc = "done",
                 !.shown = Rendered(cols) \o <<"verdict", "paywall">>,
                 !.verdict = ScreenVerdict(p),
                 !.verdictAmount = ScreenVerdictAmount(p)]
         ELSE [NothingShown EXCEPT
                 !.pc = "raised", !.exc = "TypeError",
                 !.shown = Rendered(cols)]
    ELSE IF /\ PdfHeaderOk(r.latitude, r.longitude)
            /\ PdfWeatherTableOk(x.data)
            /\ CanCompare(p)
         THEN [NothingShown EXCEPT
                 !.pc = "done",
                 !.pdfVerdict = PdfVerdict(p),
                 !.pdfVerdictAmount = PdfVerdictAmount(p),
                 !.pdfTables = PdfTables(r.full_location, r.latitude,
                                         r.longitude, d, x.data),
                 !.download = TRUE]
         ELSE [NothingShown EXCEPT !.errors = <<ErrPdf>>]

Ended(run) == run.pc \in {"done", "failed", "raised"}

AsAlone(run) ==
    RunOutcome(run) = AloneOutcome(run.payment, run.city_name,
                                   run.incident_date, run.today,
                                   run.geoResp, run.wxResp)

\* a run on its own ends as AloneOutcome says
AloneOutcomeIsMain == Ended(RunLocal) => AsAlone(RunLocal)

\* C21: of two runs whose steps interleave, each ends (done with its
\* report, or failed with its reasons) as it would have ended alone with
\* the same submission and the same service answers.
C21_InterleavedRunsIndependent ==
    /\ Ended(RunLocal) => AsAlone(RunLocal)
    /\ (other # NoOther /\ Ended(other)) => AsAlone(other)

C21_Witness ==
    /\ interleaved
    /\ view = "free"
    /\ pc = "done"
    /\ verdict = SIGNIFICANT
    /\ other # NoOther
    /\ other.view = "free"
    /\ other.pc = "done"
    /\ other.verdict = MINOR

====
